---- MODULE Spec2Model ----
(***************************************************************************)
(* go-redis-kit (package rediskit): Config, DefaultConfig, Config.Validate, *)
(* Client, NewClient, Client.HealthCheck and Client.GetConfig of client.go. *)
(*                                                                          *)
(* Go pointers are indices into a heap of Config values (heap) and into the *)
(* sequences of driver clients (drivers) and wrapper clients (clients);     *)
(* NIL is the nil pointer.  time.Duration values are counted in             *)
(* milliseconds.  The go-redis driver is an external collaborator: its      *)
(* constructor records the options it was given, and its Ping is a          *)
(* nondeterministic choice over the outcomes a server can produce within    *)
(* the context deadline.                                                    *)
(***************************************************************************)
EXTENDS Integers, Sequences, FiniteSets, TLC

VARIABLES
    heap,       \* Seq(Config): the Config values allocated so far, by address
    drivers,    \* Seq(redis.Options): the driver clients built by redis.NewClient
    pings,      \* Seq(Nat): Ping calls each driver client has received
    clients,    \* Seq([Client, config]): the rediskit.Client values, by address
    built,      \* the addresses of the clients that NewClient returned
    held,       \* the Config addresses the calling code holds a pointer to
    last,       \* the most recent call with its arguments and results
    panicked    \* TRUE once a call has panicked (the goroutine is gone)

vars == <<heap, drivers, pings, clients, built, held, last, panicked>>

NIL == 0

\* ---------------------------------------------------------------- bounds
MaxConfigs == 1
MaxClients == 1
MaxPings == 1

\* ------------------------------------------------------------- durations
Millisecond == 1
Second == 1000 * Millisecond
Minute == 60 * Second

\* ---------------------------------------------------------------- errors
\* A Go error value: the sentinel it wraps (errors.Is) and its message.
NilError == [is |-> "nil", msg |-> ""]

ErrNilClient == [is |-> "ErrNilClient", msg |-> "redis client is nil"]

ErrInvalidConfig == [is |-> "ErrInvalidConfig", msg |-> "invalid redis configuration"]

\* fmt.Errorf("%w<suffix>", base): wraps base, message base.msg followed by suffix.
Errorf(base, suffix) == [is |-> base.is, msg |-> base.msg \o suffix]

\* The run-time panic of dereferencing a nil pointer.
NilDereference == [is |-> "panic", msg |-> "invalid memory address or nil pointer dereference"]

\* ---------------------------------------------------------------- Config
\* The zero value of the Config struct.
ZeroConfig ==
    [Host |-> "", Port |-> "", Password |-> "", DB |-> 0,
     SocketKeepalive |-> FALSE, HealthCheckInterval |-> 0,
     SocketTimeout |-> 0, SocketConnectTimeout |-> 0,
     MaxRetries |-> 0, MinRetryBackoff |-> 0, MaxRetryBackoff |-> 0,
     PoolSize |-> 0, MinIdleConns |-> 0,
     ConnMaxIdleTime |-> 0, ConnMaxLifetime |-> 0, DefaultTimeout |-> 0]

\* DefaultConfig with the retry backoff ceiling left at its zero value.
DefaultConfig_NoMaxRetryBackoff ==
    [ZeroConfig EXCEPT
        !.Host = "localhost",
        !.Port = "6379",
        !.SocketKeepalive = TRUE,
        !.HealthCheckInterval = 5 * Second,
        !.SocketTimeout = 5 * Second,
        !.SocketConnectTimeout = 3 * Second,
        !.MaxRetries = 5,
        !.MinRetryBackoff = 100 * Millisecond,
        !.PoolSize = 10,
        !.MinIdleConns = 2,
        !.ConnMaxIdleTime = 5 * Minute,
        !.ConnMaxLifetime = 30 * Minute,
        !.DefaultTimeout = 5 * Second]

DefaultConfig ==
    [ZeroConfig EXCEPT
        !.Host = "localhost",
        !.Port = "6379",
        !.SocketKeepalive = TRUE,
        !.HealthCheckInterval = 5 * Second,
        !.SocketTimeout = 5 * Second,
        !.SocketConnectTimeout = 3 * Second,
        !.MaxRetries = 5,
        !.MinRetryBackoff = 100 * Millisecond,
        !.MaxRetryBackoff = 100 * Millisecond,
        !.PoolSize = 10,
        !.MinIdleConns = 2,
        !.ConnMaxIdleTime = 5 * Minute,
        !.ConnMaxLifetime = 30 * Minute,
        !.DefaultTimeout = 5 * Second]

\* Validate without its Port check.
Validate_NoPortCheck(c) ==
    IF c.Host = "" THEN Errorf(ErrInvalidConfig, ": host is required")
    ELSE IF c.PoolSize <= 0
        THEN Errorf(ErrInvalidConfig, ": pool size must be greater than 0")
    ELSE IF c.DefaultTimeout <= 0
        THEN Errorf(ErrInvalidConfig, ": default timeout must be greater than 0")
    ELSE NilError

\* Validate rejecting only a PoolSize of exactly 0.
Validate_PoolSizeZeroOnly(c) ==
    IF c.Host = "" THEN Errorf(ErrInvalidConfig, ": host is required")
    ELSE IF c.Port = "" THEN Errorf(ErrInvalidConfig, ": port is required")
    ELSE IF c.PoolSize = 0
        THEN Errorf(ErrInvalidConfig, ": pool size must be greater than 0")
    ELSE IF c.DefaultTimeout <= 0
        THEN Errorf(ErrInvalidConfig, ": default timeout must be greater than 0")
    ELSE NilError

\* Validate rejecting only a negative DefaultTimeout.
Validate_TimeoutNegativeOnly(c) ==
    IF c.Host = "" THEN Errorf(ErrInvalidConfig, ": host is required")
    ELSE IF c.Port = "" THEN Errorf(ErrInvalidConfig, ": port is required")
    ELSE IF c.PoolSize <= 0
        THEN Errorf(ErrInvalidConfig, ": pool size must be greater than 0")
    ELSE IF c.DefaultTimeout < 0
        THEN Errorf(ErrInvalidConfig, ": default timeout must be greater than 0")
    ELSE NilError

\* Validate looking at PoolSize and DefaultTimeout before Host and Port.
Validate_SizesFirst(c) ==
    IF c.PoolSize <= 0
        THEN Errorf(ErrInvalidConfig, ": pool size must be greater than 0")
    ELSE IF c.DefaultTimeout <= 0
        THEN Errorf(ErrInvalidConfig, ": default timeout must be greater than 0")
    ELSE IF c.Host = "" THEN Errorf(ErrInvalidConfig, ": host is required")
    ELSE IF c.Port = "" THEN Errorf(ErrInvalidConfig, ": port is required")
    ELSE NilError

Validate(c) ==
    IF c.Host = "" THEN Errorf(ErrInvalidConfig, ": host is required")
    ELSE IF c.Port = "" THEN Errorf(ErrInvalidConfig, ": port is required")
    ELSE IF c.PoolSize <= 0
        THEN Errorf(ErrInvalidConfig, ": pool size must be greater than 0")
    ELSE IF c.DefaultTimeout <= 0
        THEN Errorf(ErrInvalidConfig, ": default timeout must be greater than 0")
    ELSE NilError

\* ---------------------------------------------------------------- driver
\* The redis.Options literal NewClient hands to redis.NewClient.
Options(cfg) ==
    [Addr |-> cfg.Host \o ":" \o cfg.Port,
     Password |-> cfg.Password,
     DB |-> cfg.DB,
     MaxRetries |-> cfg.MaxRetries,
     MinRetryBackoff |-> cfg.MinRetryBackoff,
     MaxRetryBackoff |-> cfg.MaxRetryBackoff,
     DialTimeout |-> cfg.SocketConnectTimeout,
     ReadTimeout |-> cfg.SocketTimeout,
     WriteTimeout |-> cfg.SocketTimeout,
     PoolSize |-> cfg.PoolSize,
     MinIdleConns |-> cfg.MinIdleConns,
     ConnMaxIdleTime |-> cfg.ConnMaxIdleTime,
     ConnMaxLifetime |-> cfg.ConnMaxLifetime]

\* What the server side can do with one PING: answer, or refuse the
\* connection, after some latency.
Replies == {"PONG", "refused"}

Latencies == {1 * Millisecond, 10 * Second}

DeadlineExceeded == [is |-> "context.DeadlineExceeded", msg |-> "context deadline exceeded"]

ConnRefused == [is |-> "net.OpError", msg |-> "dial tcp: connection refused"]

\* c.Client.Ping(ctx).Err() under context.WithTimeout(Background, timeout):
\* a context whose timeout is not positive is expired from the start, and
\* otherwise the call ends with the reply or at the deadline, whichever
\* comes first.
Ping(timeout, reply, latency) ==
    IF timeout <= 0 THEN [err |-> DeadlineExceeded, elapsed |-> 0]
    ELSE IF latency >= timeout THEN [err |-> DeadlineExceeded, elapsed |-> timeout]
    ELSE [err |-> IF reply = "PONG" THEN NilError ELSE ConnRefused,
          elapsed |-> latency]

\* ----------------------------------------------------------------- calls
\* The record of a call: what was called, on what, and what came back.
NoCall ==
    [op |-> "none", cfg |-> NIL, client |-> NIL, err |-> NilError,
     probes |-> 0, ctx |-> FALSE, deadline |-> 0, elapsed |-> 0,
     pingErr |-> NilError]

Init ==
    /\ heap = <<>>
    /\ drivers = <<>>
    /\ pings = <<>>
    /\ clients = <<>>
    /\ built = {}
    /\ held = {}
    /\ last = NoCall
    /\ panicked = FALSE

\* The values the calling code assigns to the fields it sets.
FieldValues ==
    [Host |-> {"", "localhost"},
     PoolSize |-> {0, 10},
     DefaultTimeout |-> {0, 5 * Second}]

\* cfg := &Config{}
NewConfig ==
    /\ ~panicked
    /\ Len(heap) < MaxConfigs
    /\ heap' = Append(heap, ZeroConfig)
    /\ held' = held \cup {Len(heap) + 1}
    /\ last' = [NoCall EXCEPT !.op = "NewConfig", !.cfg = Len(heap) + 1]
    /\ UNCHANGED <<drivers, pings, clients, built, panicked>>

\* cfg := DefaultConfig()
CallDefaultConfig ==
    /\ ~panicked
    /\ Len(heap) < MaxConfigs
    /\ heap' = Append(heap, DefaultConfig)
    /\ held' = held \cup {Len(heap) + 1}
    /\ last' = [NoCall EXCEPT !.op = "DefaultConfig", !.cfg = Len(heap) + 1]
    /\ UNCHANGED <<drivers, pings, clients, built, panicked>>

\* cfg.<f> = v, through a pointer the calling code holds: one it allocated
\* (and may have passed to NewClient), or one GetConfig returned.
WriteField(p, f, v) ==
    /\ ~panicked
    /\ p \in held
    /\ heap[p][f] # v
    /\ heap' = [heap EXCEPT ![p][f] = v]
    /\ last' = [NoCall EXCEPT !.op = "WriteField", !.cfg = p]
    /\ UNCHANGED <<drivers, pings, clients, built, held, panicked>>

\* Validate normalising as it goes: a PoolSize that is not positive is
\* replaced by the default of 10 in the receiver before the checks run.
CallValidate_Normalises(p) ==
    LET c == [heap[p] EXCEPT !.PoolSize = IF @ <= 0 THEN 10 ELSE @]
    IN  /\ ~panicked
        /\ p \in held
        /\ heap' = [heap EXCEPT ![p] = c]
        /\ last' = [NoCall EXCEPT !.op = "Validate", !.cfg = p, !.err = Validate(c)]
        /\ UNCHANGED <<drivers, pings, clients, built, held, panicked>>

\* err := cfg.Validate()
CallValidate(p) ==
    /\ ~panicked
    /\ p \in held
    /\ last' = [NoCall EXCEPT !.op = "Validate", !.cfg = p, !.err = Validate(heap[p])]
    /\ UNCHANGED <<heap, drivers, pings, clients, built, held, panicked>>

\* NewClient building the driver client before it validates.
NewClient_BuildFirst(cfg) ==
    LET fresh == cfg = NIL
        heap1 == IF fresh THEN Append(heap, DefaultConfig) ELSE heap
        p == IF fresh THEN Len(heap1) ELSE cfg
        err == Validate(heap1[p])
    IN  /\ ~panicked
        /\ cfg \in {NIL} \cup held
        /\ fresh => Len(heap) < MaxConfigs
        /\ Len(clients) < MaxClients
        /\ drivers' = Append(drivers, Options(heap1[p]))
        /\ pings' = Append(pings, 0)
        /\ IF err # NilError
           THEN /\ last' = [NoCall EXCEPT !.op = "NewClient", !.cfg = cfg, !.err = err]
                /\ UNCHANGED <<heap, clients, built, held, panicked>>
           ELSE /\ heap' = heap1
                /\ clients' = Append(clients, [Client |-> Len(drivers) + 1, config |-> p])
                /\ built' = built \cup {Len(clients) + 1}
                /\ last' = [NoCall EXCEPT !.op = "NewClient", !.cfg = cfg,
                                          !.client = Len(clients) + 1]
                /\ UNCHANGED <<held, panicked>>

\* NewClient replacing a nil configuration by &Config{} instead of DefaultConfig().
NewClient_ZeroForNil(cfg) ==
    LET fresh == cfg = NIL
        heap1 == IF fresh THEN Append(heap, ZeroConfig) ELSE heap
        p == IF fresh THEN Len(heap1) ELSE cfg
        err == Validate(heap1[p])
    IN  /\ ~panicked
        /\ cfg \in {NIL} \cup held
        /\ fresh => Len(heap) < MaxConfigs
        /\ IF err # NilError
           THEN /\ last' = [NoCall EXCEPT !.op = "NewClient", !.cfg = cfg, !.err = err]
                /\ UNCHANGED <<heap, drivers, pings, clients, built, held, panicked>>
           ELSE /\ Len(clients) < MaxClients
                /\ heap' = heap1
                /\ drivers' = Append(drivers, Options(heap1[p]))
                /\ pings' = Append(pings, 0)
                /\ clients' = Append(clients, [Client |-> Len(drivers) + 1, config |-> p])
                /\ built' = built \cup {Len(clients) + 1}
                /\ last' = [NoCall EXCEPT !.op = "NewClient", !.cfg = cfg,
                                          !.client = Len(clients) + 1]
                /\ UNCHANGED <<held, panicked>>

\* client, err := NewClient(cfg)
NewClient(cfg) ==
    LET fresh == cfg = NIL
        heap1 == IF fresh THEN Append(heap, DefaultConfig) ELSE heap
        p == IF fresh THEN Len(heap1) ELSE cfg
        err == Validate(heap1[p])
    IN  /\ ~panicked
        /\ cfg \in {NIL} \cup held
        /\ fresh => Len(heap) < MaxConfigs
        /\ IF err # NilError
           THEN /\ last' = [NoCall EXCEPT !.op = "NewClient", !.cfg = cfg, !.err = err]
                /\ UNCHANGED <<heap, drivers, pings, clients, built, held, panicked>>
           ELSE /\ Len(clients) < MaxClients
                /\ heap' = heap1
                /\ drivers' = Append(drivers, Options(heap1[p]))
                /\ pings' = Append(pings, 0)
                /\ clients' = Append(clients, [Client |-> Len(drivers) + 1, config |-> p])
                /\ built' = built \cup {Len(clients) + 1}
                /\ last' = [NoCall EXCEPT !.op = "NewClient", !.cfg = cfg,
                                          !.client = Len(clients) + 1]
                /\ UNCHANGED <<held, panicked>>

\* client := &Client{Client: h, config: p}, where h is nil, the handle an
\* existing client embeds, or a handle the calling code gets from the driver's
\* constructor with zero options.
ClientLiteral(h, p) ==
    /\ ~panicked
    /\ Len(clients) < MaxClients
    /\ h \in 0..(Len(drivers) + 1)
    /\ p \in {NIL} \cup held
    /\ IF h = Len(drivers) + 1
       THEN /\ drivers' = Append(drivers, Options(ZeroConfig))
            /\ pings' = Append(pings, 0)
       ELSE UNCHANGED <<drivers, pings>>
    /\ clients' = Append(clients, [Client |-> h, config |-> p])
    /\ last' = [NoCall EXCEPT !.op = "ClientLiteral", !.cfg = p, !.client = Len(clients) + 1]
    /\ UNCHANGED <<heap, built, held, panicked>>

\* HealthCheck reading c.config.DefaultTimeout before it looks at c.Client.
HealthCheck_ConfigFirst(c, reply, latency) ==
    /\ ~panicked
    /\ c \in DOMAIN clients
    /\ IF clients[c].config = NIL
       THEN /\ panicked' = TRUE
            /\ last' = [NoCall EXCEPT !.op = "HealthCheck", !.client = c,
                                      !.err = NilDereference]
            /\ UNCHANGED <<heap, drivers, pings, clients, built, held>>
       ELSE IF clients[c].Client = NIL
       THEN /\ last' = [NoCall EXCEPT !.op = "HealthCheck", !.client = c,
                                      !.ctx = TRUE,
                                      !.deadline = heap[clients[c].config].DefaultTimeout,
                                      !.err = ErrNilClient]
            /\ UNCHANGED <<heap, drivers, pings, clients, built, held, panicked>>
       ELSE LET timeout == heap[clients[c].config].DefaultTimeout
                d == clients[c].Client
                r == Ping(timeout, reply, latency)
            IN  /\ pings[d] < MaxPings
                /\ pings' = [pings EXCEPT ![d] = @ + 1]
                /\ last' = [NoCall EXCEPT !.op = "HealthCheck", !.client = c,
                                          !.ctx = TRUE, !.deadline = timeout,
                                          !.probes = 1, !.pingErr = r.err,
                                          !.elapsed = r.elapsed, !.err = r.err]
                /\ UNCHANGED <<heap, drivers, clients, built, held, panicked>>

\* err := c.HealthCheck(), the server answering reply after latency.
HealthCheck(c, reply, latency) ==
    /\ ~panicked
    /\ c \in DOMAIN clients
    /\ IF clients[c].Client = NIL
       THEN /\ last' = [NoCall EXCEPT !.op = "HealthCheck", !.client = c,
                                      !.err = ErrNilClient]
            /\ UNCHANGED <<heap, drivers, pings, clients, built, held, panicked>>
       ELSE IF clients[c].config = NIL
       THEN /\ panicked' = TRUE
            /\ last' = [NoCall EXCEPT !.op = "HealthCheck", !.client = c,
                                      !.err = NilDereference]
            /\ UNCHANGED <<heap, drivers, pings, clients, built, held>>
       ELSE LET timeout == heap[clients[c].config].DefaultTimeout
                d == clients[c].Client
                r == Ping(timeout, reply, latency)
            IN  /\ pings[d] < MaxPings
                /\ pings' = [pings EXCEPT ![d] = @ + 1]
                /\ last' = [NoCall EXCEPT !.op = "HealthCheck", !.client = c,
                                          !.ctx = TRUE, !.deadline = timeout,
                                          !.probes = 1, !.pingErr = r.err,
                                          !.elapsed = r.elapsed, !.err = r.err]
                /\ UNCHANGED <<heap, drivers, clients, built, held, panicked>>

\* c.GetConfig(): the pointer the client holds, not a copy of the Config.
GetConfig(c) == clients[c].config

\* cfg := c.GetConfig()
CallGetConfig(c) ==
    /\ ~panicked
    /\ c \in DOMAIN clients
    /\ held' = held \cup ({GetConfig(c)} \ {NIL})
    /\ last' = [NoCall EXCEPT !.op = "GetConfig", !.client = c, !.cfg = GetConfig(c)]
    /\ UNCHANGED <<heap, drivers, pings, clients, built, panicked>>

Fields == DOMAIN FieldValues

Next ==
    \/ NewConfig
    \/ CallDefaultConfig
    \/ \E p \in 1..MaxConfigs, f \in Fields : \E v \in FieldValues[f] : WriteField(p, f, v)
    \/ \E p \in 1..MaxConfigs : CallValidate(p)
    \/ \E p \in 0..MaxConfigs : NewClient(p)
    \/ \E h \in 0..MaxClients, p \in 0..MaxConfigs : ClientLiteral(h, p)
    \/ \E c \in 1..MaxClients, reply \in Replies, latency \in Latencies :
          HealthCheck(c, reply, latency)
    \/ \E c \in 1..MaxClients : CallGetConfig(c)

Spec == Init /\ [][Next]_vars

\* ------------------------------------------------ Validate on its inputs
\* The Config values Validate is applied to: every combination of these
\* field values over the zero value and over the default value.
ValidateInputs ==
    { [base EXCEPT !.Host = h, !.Port = pt, !.PoolSize = n,
                   !.MinIdleConns = m, !.DefaultTimeout = t] :
        base \in {ZeroConfig, DefaultConfig},
        h \in {"", "localhost", "redis-server"},
        pt \in {"", "6379"},
        n \in {-1, 0, 1, 10},
        m \in {0, 2, 20},
        t \in {-1 * Second, 0, 1 * Millisecond, 5 * Second} }

InitValidate ==
    /\ heap \in {<<>>} \cup { <<c>> : c \in ValidateInputs }
    /\ held = DOMAIN heap
    /\ drivers = <<>>
    /\ pings = <<>>
    /\ clients = <<>>
    /\ built = {}
    /\ last = NoCall
    /\ panicked = FALSE

NextValidate ==
    \/ CallDefaultConfig
    \/ \E p \in 1..MaxConfigs : CallValidate(p)

SpecValidate == InitValidate /\ [][NextValidate]_vars

\* ---------------------------------------------------------------- claims
\* The Config value the most recent call was made on.
LastConfig == heap[last.cfg]

WrapsInvalidConfig(err) == err # NilError /\ err.is = "ErrInvalidConfig"

\* C1: Validate on a configuration whose Host or Port is the empty string,
\* whatever its other fields hold, returns a non-nil error that wraps
\* ErrInvalidConfig and reports the missing host or port; it never returns nil.
C1_EmptyAddressRejected ==
    (last.op = "Validate" /\ (LastConfig.Host = "" \/ LastConfig.Port = ""))
        => /\ WrapsInvalidConfig(last.err)
           /\ last.err.msg \in {"invalid redis configuration: host is required",
                                "invalid redis configuration: port is required"}

\* C1 happens: Validate has rejected a configuration whose only fault is an
\* empty Port.
C1_Witness ==
    /\ last.op = "Validate"
    /\ LastConfig.Host # "" /\ LastConfig.Port = ""
    /\ LastConfig.PoolSize > 0 /\ LastConfig.DefaultTimeout > 0
    /\ last.err.msg = "invalid redis configuration: port is required"

\* C2: Validate on a configuration with PoolSize <= 0 returns a non-nil error
\* wrapping ErrInvalidConfig, and with Host and Port non-empty that error is
\* 'pool size must be greater than 0'.
C2_PoolSizeRejected ==
    (last.op = "Validate" /\ LastConfig.PoolSize <= 0)
        => /\ WrapsInvalidConfig(last.err)
           /\ (LastConfig.Host # "" /\ LastConfig.Port # "")
                => last.err.msg
                     = "invalid redis configuration: pool size must be greater than 0"

\* C2 happens: Validate has rejected a negative PoolSize on a configuration
\* with an address.
C2_Witness ==
    /\ last.op = "Validate"
    /\ LastConfig.Host # "" /\ LastConfig.Port # ""
    /\ LastConfig.PoolSize < 0
    /\ last.err.msg = "invalid redis configuration: pool size must be greater than 0"

\* C3: Validate on a configuration with DefaultTimeout <= 0 returns a non-nil
\* error wrapping ErrInvalidConfig, and with Host and Port non-empty and
\* PoolSize > 0 that error is 'default timeout must be greater than 0'.
C3_TimeoutRejected ==
    (last.op = "Validate" /\ LastConfig.DefaultTimeout <= 0)
        => /\ WrapsInvalidConfig(last.err)
           /\ (LastConfig.Host # "" /\ LastConfig.Port # "" /\ LastConfig.PoolSize > 0)
                => last.err.msg
                     = "invalid redis configuration: default timeout must be greater than 0"

\* C3 happens: Validate has rejected a DefaultTimeout of exactly 0 on a
\* configuration that is otherwise valid.
C3_Witness ==
    /\ last.op = "Validate"
    /\ LastConfig.Host # "" /\ LastConfig.Port # "" /\ LastConfig.PoolSize > 0
    /\ LastConfig.DefaultTimeout = 0
    /\ last.err.msg = "invalid redis configuration: default timeout must be greater than 0"

\* The documented defaults, in milliseconds where they are durations.
HasDocumentedDefaults(c) ==
    /\ c.Host = "localhost"
    /\ c.Port = "6379"
    /\ c.PoolSize = 10
    /\ c.MinIdleConns = 2
    /\ c.DefaultTimeout = 5000
    /\ c.SocketTimeout = 5000
    /\ c.SocketConnectTimeout = 3000
    /\ c.MaxRetries = 5
    /\ c.MinRetryBackoff = 100
    /\ c.MaxRetryBackoff = 100
    /\ c.ConnMaxIdleTime = 300000
    /\ c.ConnMaxLifetime = 1800000
    /\ c.SocketKeepalive = TRUE
    /\ c.HealthCheckInterval = 5000

\* C4: the value DefaultConfig returns has exactly the documented defaults and
\* passes Validate, both when it is returned and when Validate is then called
\* on it.
C4_DefaultConfigValid ==
    /\ last.op = "DefaultConfig"
         => HasDocumentedDefaults(LastConfig) /\ Validate(LastConfig) = NilError
    /\ (last.op = "Validate" /\ HasDocumentedDefaults(LastConfig))
         => last.err = NilError

\* C4 happens: Validate has been called on a value DefaultConfig returned and
\* has returned nil.
C4_Witness ==
    /\ last.op = "Validate"
    /\ HasDocumentedDefaults(LastConfig)
    /\ LastConfig.Password = "" /\ LastConfig.DB = 0
    /\ last.err = NilError

\* C5: NewClient on a non-nil configuration that Validate rejects returns a
\* nil client with exactly the validation error and builds nothing: no driver
\* client, no wrapper client and no Config come into being on that step.  And
\* no NewClient call returns a non-nil client together with a non-nil error.
C5_FailFast ==
    [][ /\ (last'.op = "NewClient" /\ last'.cfg # NIL
               /\ Validate(heap[last'.cfg]) # NilError)
            => /\ last'.client = NIL
               /\ last'.err = Validate(heap[last'.cfg])
               /\ drivers' = drivers /\ pings' = pings
               /\ clients' = clients /\ built' = built
               /\ heap' = heap
        /\ last'.op = "NewClient"
            => ~(last'.client # NIL /\ last'.err # NilError) ]_vars

\* C5 happens: NewClient has been called on a non-nil configuration with no
\* Host and has returned the validation error and no client.
C5_Witness ==
    /\ last.op = "NewClient"
    /\ last.cfg # NIL
    /\ LastConfig.Host = ""
    /\ WrapsInvalidConfig(last.err)
    /\ last.client = NIL

\* C6: NewClient(nil) returns a nil error and a client whose embedded driver
\* handle is non-nil and whose configuration holds the documented defaults.
C6_NilConfigUsesDefaults ==
    (last.op = "NewClient" /\ last.cfg = NIL)
        => /\ last.err = NilError
           /\ last.client \in built
           /\ clients[last.client].Client \in DOMAIN drivers
           /\ GetConfig(last.client) \in DOMAIN heap
           /\ HasDocumentedDefaults(heap[GetConfig(last.client)])
           /\ drivers[clients[last.client].Client].Addr = "localhost:6379"

\* C6 happens: NewClient(nil) has returned a client.
C6_Witness ==
    /\ last.op = "NewClient"
    /\ last.cfg = NIL
    /\ last.client \in DOMAIN clients
    /\ last.err = NilError

\* C7: a HealthCheck call on a client whose driver handle is non-nil makes
\* exactly one Ping, under a deadline equal to the client's DefaultTimeout,
\* returns that Ping's error unchanged, and is back by the deadline.
C7_OneProbeWithinTimeout ==
    (last.op = "HealthCheck" /\ clients[last.client].Client # NIL)
        => /\ ~panicked
           /\ last.probes = 1
           /\ last.ctx
           /\ clients[last.client].config # NIL
           /\ last.deadline = heap[clients[last.client].config].DefaultTimeout
           /\ last.err = last.pingErr
           /\ last.elapsed <= (IF last.deadline > 0 THEN last.deadline ELSE 0)

\* C8: HealthCheck on a client whose driver handle is nil returns exactly
\* ErrNilClient, makes no Ping, creates no context and does not touch the
\* configuration pointer (a nil one does not make it panic).
C8_NilHandleReturnsErrNilClient ==
    (last.op = "HealthCheck" /\ clients[last.client].Client = NIL)
        => /\ last.err = ErrNilClient
           /\ last.probes = 0
           /\ ~last.ctx
           /\ ~panicked

\* C8 happens: HealthCheck has returned ErrNilClient on a client that has
\* neither a driver handle nor a configuration.
C8_Witness ==
    /\ last.op = "HealthCheck"
    /\ clients[last.client].Client = NIL
    /\ clients[last.client].config = NIL
    /\ last.err = ErrNilClient

\* C9: the configuration of a client NewClient returned keeps the field
\* values it was validated with, whatever the calling code does afterwards.
C9_ConfigNeverMutated ==
    [][ \A c \in built :
          heap'[GetConfig(c)'] = heap[GetConfig(c)] ]_vars

\* C10: a configuration Validate accepts has a non-empty address, a positive
\* PoolSize, a positive DefaultTimeout and MinIdleConns <= PoolSize.
C10_AcceptedSatisfiesInvariants ==
    (last.op = "Validate" /\ last.err = NilError)
        => /\ LastConfig.Host # "" /\ LastConfig.Port # ""
           /\ LastConfig.PoolSize > 0
           /\ LastConfig.DefaultTimeout > 0
           /\ LastConfig.MinIdleConns <= LastConfig.PoolSize

\* C11: a Validate call changes no field of the configuration it is called
\* on, whether it returns nil or an error, and nothing else either: no Config,
\* driver client, wrapper client or pointer appears or changes on that step.
\* And a Validate call that follows a Validate call on the same field values
\* returns the same outcome.
C11_ValidatePure ==
    [][ last'.op = "Validate"
          => /\ heap' = heap
             /\ drivers' = drivers /\ pings' = pings
             /\ clients' = clients /\ built' = built
             /\ held' = held /\ panicked' = panicked
             /\ (last.op = "Validate" /\ heap[last'.cfg] = heap[last.cfg])
                  => last'.err = last.err ]_vars

\* C11 happens: Validate has returned an error on a configuration that a
\* client holds and whose PoolSize is still the 0 it was called with.
C11_Witness ==
    /\ last.op = "Validate"
    /\ WrapsInvalidConfig(last.err)
    /\ LastConfig.PoolSize = 0
    /\ \E c \in DOMAIN clients : GetConfig(c) = last.cfg

\* The message of the earliest rule, in the order Host, Port, PoolSize,
\* DefaultTimeout, that c violates; the empty message when it violates none.
FirstViolation(c) ==
    CASE c.Host = "" -> "invalid redis configuration: host is required"
      [] c.Host # "" /\ c.Port = "" -> "invalid redis configuration: port is required"
      [] c.Host # "" /\ c.Port # "" /\ c.PoolSize <= 0
           -> "invalid redis configuration: pool size must be greater than 0"
      [] c.Host # "" /\ c.Port # "" /\ c.PoolSize > 0 /\ c.DefaultTimeout <= 0
           -> "invalid redis configuration: default timeout must be greater than 0"
      [] OTHER -> ""

\* C12: Validate reports only the earliest violated rule in the order Host,
\* Port, PoolSize, DefaultTimeout, and NewClient on a non-nil configuration
\* returns that same error, with no client, whenever there is one.
C12_FirstViolationReported ==
    (last.op \in {"Validate", "NewClient"} /\ last.cfg # NIL)
        => /\ last.err.msg = FirstViolation(LastConfig)
           /\ (last.err # NilError) = (FirstViolation(LastConfig) # "")
           /\ last.err # NilError => last.err.is = "ErrInvalidConfig"
           /\ last.err = Validate(LastConfig)

\* C12 happens: NewClient has been called on a configuration that violates
\* all four rules and has returned 'host is required'.
C12_Witness ==
    /\ last.op = "NewClient"
    /\ last.cfg # NIL
    /\ LastConfig.Host = "" /\ LastConfig.Port = ""
    /\ LastConfig.PoolSize = 0 /\ LastConfig.DefaultTimeout = 0
    /\ last.err = Errorf(ErrInvalidConfig, ": host is required")
    /\ last.client = NIL

====
